---- MODULE Spec2Model ----
(***************************************************************************)
(* Model of the smart irrigation controller                                *)
(* (backend/irrigation/smart_controller.py).                               *)
(*                                                                         *)
(* Numbers are decimal fixed point; the code's binary floating point is    *)
(* replaced by exact decimals, so the comparisons are made on the decimal  *)
(* values the source literals denote:                                      *)
(*   soil moisture, field capacity, wilting point : thousandths            *)
(*   temperature                                  : tenths of a degree C   *)
(*   humidity                                     : percent                *)
(*   wind speed                                   : m/s                    *)
(*   rainfall                                     : mm                     *)
(*   ET0, vapour pressure, radiation              : thousandths            *)
(*   water volumes                                : litres (m3 / 1000)     *)
(*   result of calculate_crop_water_need          : tenths of a litre      *)
(*   duration                                     : thousandths of an hour *)
(*   area                                         : hectares               *)
(* The wall clock is the number of hours since 00:00 of a Monday.          *)
(***************************************************************************)
EXTENDS Integers, Sequences, FiniteSets, TLC

VARIABLES clock, pc, op, field_data, weather_forecast,
          current_moisture, day_idx, schedule, result

vars == <<clock, pc, op, field_data, weather_forecast,
          current_moisture, day_idx, schedule, result>>

(***************************************************************************)
(* Bounds of the model.                                                    *)
(***************************************************************************)
\* longest weather forecast passed to generate_weekly_schedule
MaxDays == 2
\* most hours that pass between two successive readings of the wall clock
MaxTick == 1

Procs == {1, 2}

None == "None"

\* an absent optional number (solar_radiation = None); a given one is <<v>>
NoValue == <<>>

(***************************************************************************)
(* Arithmetic helpers.                                                     *)
(***************************************************************************)
Max(a, b) == IF a >= b THEN a ELSE b

Min(a, b) == IF a <= b THEN a ELSE b

Abs(a) == IF a < 0 THEN 0 - a ELSE a

\* quotient a / b (b # 0) rounded towards zero, for either sign of a and b
Quot(a, b) ==
    LET q == Abs(a) \div Abs(b)
    IN  IF (a < 0) = (b < 0) THEN q ELSE 0 - q

RECURSIVE SumSeq(_)
SumSeq(s) == IF s = <<>> THEN 0 ELSE Head(s) + SumSeq(Tail(s))

\* rainfall_forecast[:3]
FirstThree(s) == SubSeq(s, 1, Min(3, Len(s)))

(***************************************************************************)
(* CROP_COEFFICIENTS (Kc in hundredths) and SOIL_PROPERTIES.               *)
(***************************************************************************)
CROP_COEFFICIENTS ==
    [tomato |-> [initial |-> 60,  development |-> 70,  mid |-> 115, late |-> 80],
     potato |-> [initial |-> 50,  development |-> 75,  mid |-> 115, late |-> 75],
     corn   |-> [initial |-> 30,  development |-> 70,  mid |-> 120, late |-> 60],
     wheat  |-> [initial |-> 30,  development |-> 70,  mid |-> 115, late |-> 40],
     rice   |-> [initial |-> 105, development |-> 110, mid |-> 120, late |-> 95]]

SOIL_PROPERTIES ==
    [sandy |-> [field_capacity |-> 120, wilting_point |-> 40,  infiltration_rate |-> 30],
     loamy |-> [field_capacity |-> 250, wilting_point |-> 100, infiltration_rate |-> 15],
     clay  |-> [field_capacity |-> 350, wilting_point |-> 200, infiltration_rate |-> 5],
     silt  |-> [field_capacity |-> 300, wilting_point |-> 120, infiltration_rate |-> 10]]

\* mutant: the sandy profile as the default
Mut_SoilProps_SandyDefault(soil_type) ==
    IF soil_type \in DOMAIN SOIL_PROPERTIES
    THEN SOIL_PROPERTIES[soil_type]
    ELSE SOIL_PROPERTIES["sandy"]

\* SOIL_PROPERTIES.get(soil_type, SOIL_PROPERTIES['loamy'])
SoilProps(soil_type) ==
    IF soil_type \in DOMAIN SOIL_PROPERTIES
    THEN SOIL_PROPERTIES[soil_type]
    ELSE SOIL_PROPERTIES["loamy"]

\* crop_type.lower(), on the crop names of the model
Lower(crop_type) ==
    CASE crop_type = "Tomato" -> "tomato"
      [] crop_type = "RICE" -> "rice"
      [] OTHER -> crop_type

\* mutant: no coefficient for a crop that is not in the table
Mut_Kc_NoFallback(crop_type, growth_stage) ==
    IF Lower(crop_type) \in DOMAIN CROP_COEFFICIENTS
    THEN IF growth_stage \in DOMAIN CROP_COEFFICIENTS[Lower(crop_type)]
         THEN CROP_COEFFICIENTS[Lower(crop_type)][growth_stage]
         ELSE 100
    ELSE 0

\* CROP_COEFFICIENTS.get(crop_type.lower(), {}).get(growth_stage, 1.0)
Kc(crop_type, growth_stage) ==
    IF Lower(crop_type) \in DOMAIN CROP_COEFFICIENTS
    THEN IF growth_stage \in DOMAIN CROP_COEFFICIENTS[Lower(crop_type)]
         THEN CROP_COEFFICIENTS[Lower(crop_type)][growth_stage]
         ELSE 100
    ELSE 100

(***************************************************************************)
(* calculate_et0.                                                          *)
(***************************************************************************)
\* largest r with r * r <= n, by bisection on [lo, hi]
RECURSIVE SqrtIn(_, _, _)
SqrtIn(n, lo, hi) ==
    IF lo >= hi THEN lo
    ELSE LET mid == (lo + hi + 1) \div 2
         IN  IF mid * mid <= n THEN SqrtIn(n, mid, hi) ELSE SqrtIn(n, lo, mid - 1)

ISqrt(n) == SqrtIn(n, 0, 46340)

\* math.exp of x (thousandths), in thousandths: the series sum x^k / k!
RECURSIVE ExpTerms(_, _, _, _)
ExpTerms(x, k, term, acc) ==
    IF k > 24 \/ term = 0 THEN acc
    ELSE LET next == Quot(term * x, k * 1000)
         IN  ExpTerms(x, k + 1, next, acc + next)

ExpMilli(x) == IF x < -8000 THEN 0 ELSE Max(0, ExpTerms(x, 1, 1000, 1000))

\* the exponent (17.27 * temperature) / (temperature + 237.3), thousandths
ExpArg(temperature) == Quot(17270 * temperature, temperature + 2373)

\* the inputs on which calculate_et0 raises instead of returning:
\*   temperature + 237.3 = 0 or temperature + 15 = 0 : ZeroDivisionError
\*   exponent above 709.78                         : OverflowError (math.exp)
\*   no radiation given and temperature + 20 < 0   : ValueError (math.sqrt)
Et0Raises(temperature, solar_radiation) ==
    \/ temperature + 2373 = 0
    \/ (temperature + 2373 # 0 /\ ExpArg(temperature) > 709782)
    \/ (solar_radiation = NoValue /\ temperature + 200 < 0)
    \/ temperature + 150 = 0

\* mutant: the estimate returned without the clamp
Mut_ClampEt0_None(et0) == et0

\* return max(0, et0)
ClampEt0(et0) == Max(0, et0)

calculate_et0(temperature, humidity, wind_speed, solar_radiation) ==
    LET es    == Quot(6108 * ExpMilli(ExpArg(temperature)), 10000)
        ea    == Quot(es * humidity, 100)
        vpd   == es - ea
        solar == IF solar_radiation = NoValue
                 THEN Quot(160 * ISqrt((temperature + 200) * 100000), 1000)
                 ELSE solar_radiation[1]
        rad   == Quot(Quot(solar * (temperature + 50), 100) * 408, 10000)
        aero  == Quot(9 * temperature * wind_speed * vpd, 10 * (temperature + 150))
    IN  ClampEt0(rad + aero)

(***************************************************************************)
(* calculate_crop_water_need: et0 * kc * area * 10 m3.  With et0 in        *)
(* thousandths and kc in hundredths the product et0 * kc * area is that    *)
(* volume in tenths of a litre, exactly.                                   *)
(***************************************************************************)
\* mutant: a fixed allowance of 100 litres added to the need
Mut_calculate_crop_water_need_Allowance(crop_type, growth_stage, et0, area) ==
    LET kc  == Kc(crop_type, growth_stage)
        etc == et0 * kc
    IN  etc * area + 1000

calculate_crop_water_need(crop_type, growth_stage, et0, area) ==
    LET kc  == Kc(crop_type, growth_stage)
        etc == et0 * kc
    IN  etc * area

(***************************************************************************)
(* calculate_optimal_irrigation.                                           *)
(* Recommendation strings of the source and their names here:              *)
(*   'tajil al-rayy - amtar mutawaqqaa'      DEFER_FOR_RAIN                *)
(*   'rayy fawri - rutuba munkhafida jiddan' IRRIGATE_NOW                  *)
(*   'rayy mujadwal - ...'                   IRRIGATE_SCHEDULED            *)
(*   'la haja lil-rayy - rutuba kafiya'      NO_IRRIGATION_NEEDED          *)
(* optimal_time: 'al-an' = now, 'al-an (sabahan)' = now_morning,           *)
(*   'al-an (masaan)' = now_evening, 'ghadan al-saa 6 sabahan' =           *)
(*   tomorrow_6am.  status: 'jayyid' = adequate, 'yahtaj rayy' =           *)
(*   needs_irrigation.                                                     *)
(***************************************************************************)
\* round(x, 2) of a value in thousandths: the nearest hundredth, ties to even
Round2(v) ==
    LET q == Abs(v) \div 10
        r == Abs(v) % 10
        n == IF r > 5 \/ (r = 5 /\ q % 2 = 1) THEN q + 1 ELSE q
    IN  IF v < 0 THEN 0 - (n * 10) ELSE n * 10

\* mutant: the first two entries of the forecast
Mut_ExpectedRainfall_FirstTwo(rainfall_forecast) ==
    IF rainfall_forecast = <<>> THEN 0
    ELSE SumSeq(SubSeq(rainfall_forecast, 1, Min(2, Len(rainfall_forecast))))

\* mutant: the first four entries of the forecast
Mut_ExpectedRainfall_FirstFour(rainfall_forecast) ==
    IF rainfall_forecast = <<>> THEN 0
    ELSE SumSeq(SubSeq(rainfall_forecast, 1, Min(4, Len(rainfall_forecast))))

\* sum(rainfall_forecast[:3]) if rainfall_forecast else 0
ExpectedRainfall(rainfall_forecast) ==
    IF rainfall_forecast = <<>> THEN 0 ELSE SumSeq(FirstThree(rainfall_forecast))

\* field_capacity * 0.8
TargetMoisture(field_capacity) == Quot(field_capacity * 8, 10)

\* mutant: the deficit without its lower bound 0
Mut_MoistureDeficit_Signed(target_moisture, cur_moisture) ==
    target_moisture - cur_moisture

\* max(0, target_moisture - current_moisture)
MoistureDeficit(target_moisture, cur_moisture) ==
    Max(0, target_moisture - cur_moisture)

\* mutant: the critical threshold at twice the wilting point
Mut_CriticalMoisture_Double(wilting_point) == wilting_point * 2

\* mutant: the critical threshold without its factor 1.2
Mut_CriticalMoisture_NoMargin(wilting_point) == wilting_point

\* wilting_point * 1.2
CriticalMoisture(wilting_point) == Quot(wilting_point * 12, 10)

\* elif current_moisture < wilting_point * 1.2
IsCritical(cur_moisture, wilting_point) ==
    cur_moisture < CriticalMoisture(wilting_point)

\* mutant: every moisture below the ceiling 0.40 counts as below target
Mut_BelowTarget_Ceiling(cur_moisture, target_moisture) == cur_moisture < 400

\* mutant: the target itself still counts as below target
Mut_BelowTarget_Inclusive(cur_moisture, target_moisture) ==
    cur_moisture <= target_moisture

\* elif current_moisture < target_moisture
BelowTarget(cur_moisture, target_moisture) == cur_moisture < target_moisture

\* mutant: the morning window closed at 8 o'clock inclusive
Mut_OptimalTime_Inclusive8(current_hour) ==
    IF 5 <= current_hour /\ current_hour <= 8 THEN "now_morning"
    ELSE IF 17 <= current_hour /\ current_hour < 20 THEN "now_evening"
    ELSE "tomorrow_6am"

\* the time of a scheduled irrigation; current_hour is datetime.now().hour
OptimalTime(current_hour) ==
    IF 5 <= current_hour /\ current_hour < 8 THEN "now_morning"
    ELSE IF 17 <= current_hour /\ current_hour < 20 THEN "now_evening"
    ELSE "tomorrow_6am"

\* mutant: a deferred plan keeps a time of irrigation
Mut_Decision_DeferKeepsTime(cur_moisture, expected_rainfall, wilting_point, target_moisture, current_hour) ==
    IF expected_rainfall > 10
    THEN [recommendation |-> "DEFER_FOR_RAIN", should_irrigate |-> FALSE,
          optimal_time |-> OptimalTime(current_hour)]
    ELSE IF IsCritical(cur_moisture, wilting_point)
    THEN [recommendation |-> "IRRIGATE_NOW", should_irrigate |-> TRUE,
          optimal_time |-> "now"]
    ELSE IF BelowTarget(cur_moisture, target_moisture)
    THEN [recommendation |-> "IRRIGATE_SCHEDULED", should_irrigate |-> TRUE,
          optimal_time |-> OptimalTime(current_hour)]
    ELSE [recommendation |-> "NO_IRRIGATION_NEEDED", should_irrigate |-> FALSE,
          optimal_time |-> None]

\* mutant: the critical-moisture branch tested before the rain branch
Mut_Decision_CriticalFirst(cur_moisture, expected_rainfall, wilting_point, target_moisture, current_hour) ==
    IF IsCritical(cur_moisture, wilting_point)
    THEN [recommendation |-> "IRRIGATE_NOW", should_irrigate |-> TRUE,
          optimal_time |-> "now"]
    ELSE IF expected_rainfall > 10
    THEN [recommendation |-> "DEFER_FOR_RAIN", should_irrigate |-> FALSE,
          optimal_time |-> None]
    ELSE IF BelowTarget(cur_moisture, target_moisture)
    THEN [recommendation |-> "IRRIGATE_SCHEDULED", should_irrigate |-> TRUE,
          optimal_time |-> OptimalTime(current_hour)]
    ELSE [recommendation |-> "NO_IRRIGATION_NEEDED", should_irrigate |-> FALSE,
          optimal_time |-> None]

\* mutant: a scheduled irrigation is recommended only inside a time window
Mut_Decision_WindowOnly(cur_moisture, expected_rainfall, wilting_point, target_moisture, current_hour) ==
    IF expected_rainfall > 10
    THEN [recommendation |-> "DEFER_FOR_RAIN", should_irrigate |-> FALSE,
          optimal_time |-> None]
    ELSE IF IsCritical(cur_moisture, wilting_point)
    THEN [recommendation |-> "IRRIGATE_NOW", should_irrigate |-> TRUE,
          optimal_time |-> "now"]
    ELSE IF BelowTarget(cur_moisture, target_moisture)
    THEN [recommendation |-> "IRRIGATE_SCHEDULED",
          should_irrigate |-> OptimalTime(current_hour) # "tomorrow_6am",
          optimal_time |-> OptimalTime(current_hour)]
    ELSE [recommendation |-> "NO_IRRIGATION_NEEDED", should_irrigate |-> FALSE,
          optimal_time |-> None]

\* the if / elif chain choosing recommendation, should_irrigate, optimal_time
Decision(cur_moisture, expected_rainfall, wilting_point, target_moisture, current_hour) ==
    IF expected_rainfall > 10
    THEN [recommendation |-> "DEFER_FOR_RAIN", should_irrigate |-> FALSE,
          optimal_time |-> None]
    ELSE IF IsCritical(cur_moisture, wilting_point)
    THEN [recommendation |-> "IRRIGATE_NOW", should_irrigate |-> TRUE,
          optimal_time |-> "now"]
    ELSE IF BelowTarget(cur_moisture, target_moisture)
    THEN [recommendation |-> "IRRIGATE_SCHEDULED", should_irrigate |-> TRUE,
          optimal_time |-> OptimalTime(current_hour)]
    ELSE [recommendation |-> "NO_IRRIGATION_NEEDED", should_irrigate |-> FALSE,
          optimal_time |-> None]

\* mutant: drip irrigation chosen for loamy soil as well
Mut_MethodFor_LoamyDrip(soil_type) ==
    IF soil_type = "sandy" \/ soil_type = "loamy"
    THEN [method |-> "drip", efficiency |-> 90]
    ELSE IF soil_type = "clay" THEN [method |-> "surface", efficiency |-> 60]
    ELSE [method |-> "sprinkler", efficiency |-> 75]

\* irrigation method and efficiency (percent) by soil type
MethodFor(soil_type) ==
    IF soil_type = "sandy" THEN [method |-> "drip", efficiency |-> 90]
    ELSE IF soil_type = "clay" THEN [method |-> "surface", efficiency |-> 60]
    ELSE [method |-> "sprinkler", efficiency |-> 75]

\* flow_rate = 50 m3/hour
FlowRate == 50

\* mutant: the observation's solar radiation handed on to calculate_et0
Mut_RadiationPassed_FromWeather(weather) == weather.solar_radiation

\* the solar_radiation argument of the call of calculate_et0: the call names
\* temperature, humidity and wind_speed only, so the parameter keeps its
\* default None
RadiationPassed(weather) == NoValue

\* the call raises when calculate_et0 does
OptimalRaises(fd) == Et0Raises(fd.weather.temperature, RadiationPassed(fd.weather))

calculate_optimal_irrigation(fd, current_hour) ==
    LET weather == fd.weather
        area == fd.area
        cur == fd.current_soil_moisture
        et0 == calculate_et0(weather.temperature, weather.humidity,
                             weather.wind_speed, RadiationPassed(weather))
        daily_water_need ==
            Quot(calculate_crop_water_need(fd.crop_type, fd.growth_stage, et0, area),
                 10)
        soil_props == SoilProps(fd.soil_type)
        field_capacity == soil_props.field_capacity
        wilting_point == soil_props.wilting_point
        target_moisture == TargetMoisture(field_capacity)
        moisture_deficit == MoistureDeficit(target_moisture, cur)
        deficit_water == moisture_deficit * area * 3000
        expected_rainfall == ExpectedRainfall(weather.rainfall_forecast)
        rainfall_water == expected_rainfall * area * 10000
        total_water_need == Max(0, daily_water_need + deficit_water - rainfall_water)
        d == Decision(cur, expected_rainfall, wilting_point, target_moisture,
                      current_hour)
        m == MethodFor(fd.soil_type)
        adjusted_water == IF d.should_irrigate
                          THEN Quot(total_water_need * 100, m.efficiency) ELSE 0
        duration_hours == IF d.should_irrigate
                          THEN Quot(adjusted_water, FlowRate) ELSE 0
    IN  [should_irrigate |-> d.should_irrigate,
         recommendation |-> d.recommendation,
         water_requirements |->
            [daily_need |-> Round2(daily_water_need),
             deficit |-> Round2(deficit_water),
             rainfall_contribution |-> Round2(rainfall_water),
             total_need |-> Round2(total_water_need),
             adjusted_for_efficiency |-> Round2(adjusted_water)],
         schedule |->
            [optimal_time |-> d.optimal_time,
             duration_hours |-> Round2(duration_hours),
             method |-> m.method,
             efficiency |-> m.efficiency],
         soil_status |->
            [current_moisture |-> cur,
             target_moisture |-> target_moisture,
             field_capacity |-> field_capacity,
             wilting_point |-> wilting_point,
             status |-> IF cur >= target_moisture
                        THEN "adequate" ELSE "needs_irrigation"],
         weather_impact |->
            [et0 |-> Round2(et0),
             expected_rainfall_mm |-> expected_rainfall,
             temperature |-> weather.temperature]]

(***************************************************************************)
(* generate_weekly_schedule.                                               *)
(***************************************************************************)
\* the list indexed by date.weekday() (Monday = 0): 'as-sabt', 'al-ahad',
\* 'al-ithnayn', 'ath-thulatha', 'al-arbia', 'al-khamis', 'al-juma'
DayNames ==
    <<"Saturday", "Sunday", "Monday", "Tuesday", "Wednesday", "Thursday", "Friday">>

\* datetime.now().hour
HourOf(c) == c % 24

\* the calendar day of datetime.now(), as a day number (day 0 is a Monday)
DateOf(c) == c \div 24

\* date.weekday(): Monday = 0 ... Sunday = 6
Weekday(date) == date % 7

\* mutant: the lower bound of the clamp at 0.09
Mut_NextMoisture_Floor9(m, should_irrigate) ==
    LET irrigated == IF should_irrigate THEN m + 50 ELSE m
        declined  == irrigated - 20
    IN  Max(90, Min(400, declined))

\* mutant: a natural decline of 0.05 per day
Mut_NextMoisture_FastDecline(m, should_irrigate) ==
    LET irrigated == IF should_irrigate THEN m + 50 ELSE m
        declined  == irrigated - 50
    IN  Max(100, Min(400, declined))

\* mutant: the clamp without its lower bound
Mut_NextMoisture_NoFloor(m, should_irrigate) ==
    LET irrigated == IF should_irrigate THEN m + 50 ELSE m
        declined  == irrigated - 20
    IN  Min(400, declined)

\* mutant: the irrigation increment added on every day
Mut_NextMoisture_AlwaysIrrigated(m, should_irrigate) ==
    Max(100, Min(400, m + 50 - 20))

\* the moisture carried to the next day
NextMoisture(m, should_irrigate) ==
    LET irrigated == IF should_irrigate THEN m + 50 ELSE m
        declined  == irrigated - 20
    IN  Max(100, Min(400, declined))

\* mutant: the day's moisture clamped before the plan is computed
Mut_FieldDataCopy_ClampedFirst(fd, m, daily_weather) ==
    [fd EXCEPT !.current_soil_moisture = Max(100, Min(400, m)),
               !.weather = daily_weather]

\* field_data.copy() with the day's moisture and weather
FieldDataCopy(fd, m, daily_weather) ==
    [fd EXCEPT !.current_soil_moisture = m, !.weather = daily_weather]

\* mutant: no copy, the two keys are assigned in the caller's dictionary
Mut_FieldDataAfter_InPlace(fd, field_data_copy) == field_data_copy

\* the caller's dictionary after the two key assignments of an iteration:
\* they are made on the shallow copy, whose keys are its own
FieldDataAfter(fd, field_data_copy) == fd

\* mutant: the local kept as one attribute of the shared controller
Mut_LocalOf_OnController(v, p) == v[1]

\* the value of a local variable in the frame of invocation p
LocalOf(v, p) == v[p]

\* the plan of one day, tagged with date and day_name; the hour is read at
\* clock hourAt, the date at clock dateAt
DailyPlan(fd, hourAt, dateAt, idx) ==
    LET date == DateOf(dateAt) + idx
    IN  calculate_optimal_irrigation(fd, HourOf(hourAt))
          @@ [date |-> date, day_name |-> DayNames[Weekday(date) + 1]]

(***************************************************************************)
(* The calls.  pc[p] is "absent" (no such call), "called", "loop" (inside  *)
(* the for loop of generate_weekly_schedule), "returned" or "raised".      *)
(* op[p] is the method called and field_data[p] its argument: the field    *)
(* dictionary of "recommend" and "weekly", the record of the arguments of  *)
(* "et0" and "crop_need".                                                  *)
(***************************************************************************)
\* schedule = []; current_moisture = field_data['current_soil_moisture']
Enter(p) ==
    /\ pc[p] = "called"
    /\ op[p] = "weekly"
    /\ schedule' = [schedule EXCEPT ![p] = <<>>]
    /\ current_moisture' =
          [current_moisture EXCEPT ![p] = field_data[p].current_soil_moisture]
    /\ day_idx' = [day_idx EXCEPT ![p] = 0]
    /\ pc' = [pc EXCEPT ![p] = "loop"]
    /\ UNCHANGED <<clock, op, field_data, weather_forecast, result>>

\* one iteration of the for loop; d1 hours pass before the hour is read,
\* d2 more before the date is read
Iterate(p, d1, d2) ==
    /\ pc[p] = "loop"
    /\ day_idx[p] < Len(weather_forecast[p])
    /\ LET daily_weather == weather_forecast[p][day_idx[p] + 1]
           field_data_copy ==
               FieldDataCopy(field_data[p], LocalOf(current_moisture, p),
                             daily_weather)
       IN  /\ field_data' =
                 [field_data EXCEPT ![p] = FieldDataAfter(@, field_data_copy)]
           /\ IF OptimalRaises(field_data_copy)
              THEN /\ pc' = [pc EXCEPT ![p] = "raised"]
                   /\ clock' = clock + d1
                   /\ UNCHANGED <<schedule, current_moisture, day_idx>>
              ELSE LET daily_plan ==
                           DailyPlan(field_data_copy, clock + d1, clock + d1 + d2,
                                     day_idx[p])
                   IN  /\ schedule' = [schedule EXCEPT ![p] = Append(@, daily_plan)]
                       /\ current_moisture' =
                             [current_moisture EXCEPT
                                ![p] = NextMoisture(LocalOf(current_moisture, p),
                                                    daily_plan.should_irrigate)]
                       /\ day_idx' = [day_idx EXCEPT ![p] = @ + 1]
                       /\ clock' = clock + d1 + d2
                       /\ UNCHANGED pc
    /\ UNCHANGED <<op, weather_forecast, result>>

\* return schedule
Return(p) ==
    /\ pc[p] = "loop"
    /\ day_idx[p] = Len(weather_forecast[p])
    /\ result' = [result EXCEPT ![p] = schedule[p]]
    /\ pc' = [pc EXCEPT ![p] = "returned"]
    /\ UNCHANGED <<clock, op, field_data, weather_forecast,
                   current_moisture, day_idx, schedule>>

\* get_irrigation_recommendation(field_data)
GetRecommendation(p) ==
    /\ pc[p] = "called"
    /\ op[p] = "recommend"
    /\ IF OptimalRaises(field_data[p])
       THEN /\ pc' = [pc EXCEPT ![p] = "raised"]
            /\ UNCHANGED result
       ELSE /\ result' = [result EXCEPT
                            ![p] = calculate_optimal_irrigation(field_data[p],
                                                                HourOf(clock))]
            /\ pc' = [pc EXCEPT ![p] = "returned"]
    /\ UNCHANGED <<clock, op, field_data, weather_forecast,
                   current_moisture, day_idx, schedule>>

\* controller.calculate_et0(temperature, humidity, wind_speed, solar_radiation),
\* the arguments being the fields of field_data[p]
CalculateEt0(p) ==
    /\ pc[p] = "called"
    /\ op[p] = "et0"
    /\ LET a == field_data[p]
       IN  IF Et0Raises(a.temperature, a.solar_radiation)
           THEN /\ pc' = [pc EXCEPT ![p] = "raised"]
                /\ UNCHANGED result
           ELSE /\ result' = [result EXCEPT
                                ![p] = calculate_et0(a.temperature, a.humidity,
                                                     a.wind_speed, a.solar_radiation)]
                /\ pc' = [pc EXCEPT ![p] = "returned"]
    /\ UNCHANGED <<clock, op, field_data, weather_forecast,
                   current_moisture, day_idx, schedule>>

\* controller.calculate_crop_water_need(crop_type, growth_stage, et0, area),
\* the arguments being the fields of field_data[p]
CalculateCropWaterNeed(p) ==
    /\ pc[p] = "called"
    /\ op[p] = "crop_need"
    /\ LET a == field_data[p]
       IN  result' = [result EXCEPT
                        ![p] = calculate_crop_water_need(a.crop_type, a.growth_stage,
                                                         a.et0, a.area)]
    /\ pc' = [pc EXCEPT ![p] = "returned"]
    /\ UNCHANGED <<clock, op, field_data, weather_forecast,
                   current_moisture, day_idx, schedule>>

Next ==
    \/ \E p \in Procs : Enter(p)
    \/ \E p \in Procs : \E d1 \in 0..MaxTick : \E d2 \in 0..MaxTick : Iterate(p, d1, d2)
    \/ \E p \in Procs : Return(p)
    \/ \E p \in Procs : GetRecommendation(p)
    \/ \E p \in Procs : CalculateEt0(p)
    \/ \E p \in Procs : CalculateCropWaterNeed(p)

(***************************************************************************)
(* Inputs.                                                                 *)
(***************************************************************************)
Weather(t, h, w, rf) ==
    [temperature |-> t, humidity |-> h, wind_speed |-> w,
     rainfall_forecast |-> rf, solar_radiation |-> NoValue]

\* rainfall forecasts: none, exactly 10 mm, more than 10 mm, more than 10 mm
\* only beyond the third day, too short, too short with a negative entry
Rainfalls ==
    { <<>>, <<4, 3, 3>>, <<4, 4, 3>>, <<0, 0, 0, 50>>, <<12>>, <<20, -15>> }

\* 30 C, 40 %, 3 m/s with each rainfall forecast, and a day of -15 C
Weathers ==
    { Weather(300, 40, 3, rf) : rf \in Rainfalls } \cup { Weather(-150, 40, 3, <<>>) }

Soils == {"sandy", "loamy", "clay", "silt", "peat"}

\* moistures around the thresholds of a soil (1.2 x wilting point and
\* 0.8 x field capacity), beyond the clamp bounds and outside [0, 1]
MoisturesOf(soil) ==
    LET sp == SoilProps(soil)
        c  == (12 * sp.wilting_point) \div 10
        t  == (8 * sp.field_capacity) \div 10
    IN  {-50, 30, c - 1, c, t - 1, t, 430, 1001}

Field(soil, m, w) ==
    [crop_type |-> "tomato", growth_stage |-> "mid", soil_type |-> soil,
     area |-> 2, current_soil_moisture |-> m, weather |-> w]

RECURSIVE SeqsUpTo(_, _)
SeqsUpTo(S, n) ==
    IF n = 0 THEN { <<>> }
    ELSE LET shorter == SeqsUpTo(S, n - 1)
         IN  shorter \cup { Append(s, x) : s \in { q \in shorter : Len(q) = n - 1 }, x \in S }

DefaultWeather == Weather(300, 40, 3, <<>>)

DefaultField == Field("loamy", 200, DefaultWeather)

\* the calls of P are pending with the same arguments, the other calls are absent
InitCalls(P, kind, fd, wf, c) ==
    /\ clock = c
    /\ pc = [p \in Procs |-> IF p \in P THEN "called" ELSE "absent"]
    /\ op = [p \in Procs |-> IF p \in P THEN kind ELSE None]
    /\ field_data = [p \in Procs |-> IF p \in P THEN fd ELSE DefaultField]
    /\ weather_forecast = [p \in Procs |-> IF p \in P THEN wf ELSE <<>>]
    /\ current_moisture = [p \in Procs |-> 0]
    /\ day_idx = [p \in Procs |-> 0]
    /\ schedule = [p \in Procs |-> <<>>]
    /\ result = [p \in Procs |-> None]

\* arguments of calculate_et0: temperatures -240, -237.3, -25, -15, 0 and
\* 30 C, humidity 40 and 150 %, wind -2 and 3 m/s, radiation absent, -5 and 20
Et0Args ==
    [temperature : {-2400, -2373, -250, -150, 0, 300}, humidity : {40, 150},
     wind_speed : {-2, 3}, solar_radiation : {NoValue, <<-5000>>, <<20000>>}]

\* arguments of calculate_crop_water_need: crops of the table (in either
\* case) and outside it, stages of the table and outside it
CropArgs ==
    [crop_type : {"tomato", "Tomato", "rice", "quinoa"},
     growth_stage : {"mid", "initial", "flowering"},
     et0 : {5000, 3333}, area : {1, 2, 4}]

\* a field dictionary that also carries a flow rate of the device, in m3/hour
RatedField(soil, m, w, rate) == Field(soil, m, w) @@ [flow_rate |-> rate]

\* direct calls of the two estimators, made by the calls of P
InitDirect(P) ==
    \/ \E a \in Et0Args : InitCalls(P, "et0", a, <<>>, 7)
    \/ \E a \in CropArgs : InitCalls(P, "crop_need", a, <<>>, 7)

\* the days of a weekly forecast: dry, rainy, a malformed rainfall forecast,
\* and a day of -15 C
WeekWeathers ==
    { Weather(300, 40, 3, <<>>), Weather(300, 40, 3, <<4, 4, 3>>),
      Weather(300, 40, 3, <<20, -15>>), Weather(-150, 40, 3, <<>>) }

\* one call: a recommendation at any hour, or a weekly schedule
Init ==
    \/ \E soil \in Soils : \E m \in MoisturesOf(soil) : \E w \in Weathers :
       \E c \in 0..23 :
          InitCalls({1}, "recommend", Field(soil, m, w), <<>>, c)
    \/ \E soil \in Soils : \E m \in MoisturesOf(soil) :
       \E wf \in SeqsUpTo(WeekWeathers, MaxDays) : \E c \in {7, 23} :
          InitCalls({1}, "weekly", Field(soil, m, DefaultWeather), wf, c)
    \/ \E soil \in {"loamy", "clay"} : \E m \in {150, 199} : \E c \in {7, 12} :
          InitCalls({1}, "recommend", RatedField(soil, m, DefaultWeather, 25), <<>>, c)
    \/ InitDirect({1})

Spec == Init /\ [][Next]_vars

\* the same call made twice, the two calls running in any interleaving
PairWeathers ==
    { Weather(300, 40, 3, <<>>), Weather(300, 40, 3, <<4, 4, 3>>),
      Weather(-150, 40, 3, <<>>) }

PairMoistures == {119, 199, 200}

InitPair ==
    \/ \E soil \in {"loamy", "clay"} : \E m \in PairMoistures :
       \E w \in PairWeathers : \E c \in {7, 23} :
          InitCalls({1, 2}, "recommend", Field(soil, m, w), <<>>, c)
    \/ \E soil \in {"loamy", "clay"} : \E m \in PairMoistures :
       \E wf \in SeqsUpTo(PairWeathers, MaxDays) : \E c \in {7, 23} :
          InitCalls({1, 2}, "weekly", Field(soil, m, DefaultWeather), wf, c)
    \/ InitDirect({1, 2})

SpecPair == InitPair /\ [][Next]_vars

\* two calls of the same method with arguments chosen independently
FieldOf(crop, stage, soil, a, m, w) ==
    [crop_type |-> crop, growth_stage |-> stage, soil_type |-> soil,
     area |-> a, current_soil_moisture |-> m, weather |-> w]

VaryFields ==
    { FieldOf("tomato", "mid", soil, a, m, Weather(300, 40, 3, rf)) :
        soil \in {"loamy", "peat", "clay"}, a \in {1, 2},
        m \in {150, 199, 200, 210, 300},
        rf \in { <<>>, <<2, 1, 0>>, <<2, 1, 0, 50>>, <<4, 4, 3>> } }

\* fields whose weather observation carries a solar radiation or none
SolarFields ==
    { Field("loamy", m, [DefaultWeather EXCEPT !.solar_radiation = r]) :
        m \in {150, 210}, r \in {NoValue, <<20000>>, <<-5000>>} }

InitTwo(kind, fd1, fd2, wf, c) ==
    /\ clock = c
    /\ pc = [p \in Procs |-> "called"]
    /\ op = [p \in Procs |-> kind]
    /\ field_data = [p \in Procs |-> IF p = 1 THEN fd1 ELSE fd2]
    /\ weather_forecast = [p \in Procs |-> wf]
    /\ current_moisture = [p \in Procs |-> 0]
    /\ day_idx = [p \in Procs |-> 0]
    /\ schedule = [p \in Procs |-> <<>>]
    /\ result = [p \in Procs |-> None]

InitVary ==
    \/ \E fd1 \in VaryFields : \E fd2 \in VaryFields :
          InitTwo("recommend", fd1, fd2, <<>>, 7)
    \/ \E a1 \in CropArgs : \E a2 \in CropArgs : InitTwo("crop_need", a1, a2, <<>>, 7)
    \/ \E a1 \in Et0Args : \E a2 \in Et0Args : InitTwo("et0", a1, a2, <<>>, 7)
    \/ \E m1 \in {150, 210} : \E m2 \in {150, 210} :
       \E wf \in SeqsUpTo({DefaultWeather}, MaxDays) :
          InitTwo("weekly", Field("loamy", m1, DefaultWeather),
                  Field("loamy", m2, DefaultWeather), wf, 7)
    \/ \E fd1 \in SolarFields : \E fd2 \in SolarFields :
          InitTwo("recommend", fd1, fd2, <<>>, 7)

SpecVary == InitVary /\ [][Next]_vars

\* a forecast for the seven days of a week
WeekDays == 7

\* the same weather on each of the seven days
AllWeek(w) == [i \in 1..WeekDays |-> w]

DryDay == Weather(300, 40, 3, <<>>)

RainyDay == Weather(300, 40, 3, <<4, 4, 3>>)

\* forecasts of seven days: dry throughout, more than 10 mm of rain on every
\* day (also with the rain in one entry), and rain on the first or third day
WeekForecasts ==
    { AllWeek(DryDay), AllWeek(RainyDay), AllWeek(Weather(300, 40, 3, <<20>>)),
      [AllWeek(DryDay) EXCEPT ![1] = RainyDay],
      [AllWeek(DryDay) EXCEPT ![3] = RainyDay] }

\* one call: a weekly schedule over seven days, a recommendation, or a
\* direct call of an estimator
InitWeek ==
    \/ \E soil \in Soils : \E m \in MoisturesOf(soil) \cup {150, 200} :
       \E wf \in WeekForecasts :
          InitCalls({1}, "weekly", Field(soil, m, DefaultWeather), wf, 8)
    \/ \E soil \in Soils : \E w \in {DryDay, RainyDay} :
          InitCalls({1}, "recommend", Field(soil, 150, w), <<>>, 8)
    \/ InitDirect({1})

SpecWeek == InitWeek /\ [][Next]_vars

(***************************************************************************)
(* Vocabulary of the properties.  The thresholds are restated from the     *)
(* soil table in the properties' own terms: with moisture m in             *)
(* thousandths, m < 1.2 * wp is 10 * m < 12 * wp and m < 0.8 * fc is       *)
(* 10 * m < 8 * fc.                                                        *)
(***************************************************************************)
WiltingOf(soil) ==
    CASE soil = "sandy" -> 40 [] soil = "clay" -> 200 [] soil = "silt" -> 120
      [] OTHER -> 100

CapacityOf(soil) ==
    CASE soil = "sandy" -> 120 [] soil = "clay" -> 350 [] soil = "silt" -> 300
      [] OTHER -> 250

\* the rain of the first three entries of a forecast
Rain3(rf) ==
    (IF Len(rf) >= 1 THEN rf[1] ELSE 0) + (IF Len(rf) >= 2 THEN rf[2] ELSE 0)
      + (IF Len(rf) >= 3 THEN rf[3] ELSE 0)

Clamped(x) == IF x < 100 THEN 100 ELSE IF x > 400 THEN 400 ELSE x

\* a forecast with one or two entries, or with a negative entry
Malformed(rf) ==
    \/ (Len(rf) >= 1 /\ Len(rf) < 3)
    \/ \E i \in 1..Len(rf) : rf[i] < 0

\* this step computes a plan in call p
PlanStep(p) ==
    \/ (op[p] = "recommend" /\ pc[p] = "called" /\ pc'[p] = "returned")
    \/ (op[p] = "weekly" /\ pc[p] = "loop" /\ day_idx'[p] = day_idx[p] + 1)

\* the plan computed by the step, and the moisture, weather and soil it is for
StepPlan(p) ==
    IF op[p] = "recommend" THEN result'[p] ELSE schedule'[p][day_idx[p] + 1]

StepMoisture(p) ==
    IF op[p] = "recommend" THEN field_data[p].current_soil_moisture
    ELSE current_moisture[p]

StepWeather(p) ==
    IF op[p] = "recommend" THEN field_data[p].weather
    ELSE weather_forecast[p][day_idx[p] + 1]

StepRain(p) == Rain3(StepWeather(p).rainfall_forecast)

StepSoil(p) == field_data[p].soil_type

\* the hours of the day the wall clock shows during the step
StepHours == { HourOf(c) : c \in clock..clock' }

InWindow(h) == (5 <= h /\ h < 8) \/ (17 <= h /\ h < 20)

\* a plan without the fields the properties call clock-dependent
StripClock(plan) ==
    [should_irrigate |-> plan.should_irrigate,
     recommendation |-> plan.recommendation,
     water_requirements |-> plan.water_requirements,
     duration_hours |-> plan.schedule.duration_hours,
     method |-> plan.schedule.method,
     efficiency |-> plan.schedule.efficiency,
     soil_status |-> plan.soil_status,
     weather_impact |-> plan.weather_impact]

StripAll(s) == [k \in 1..Len(s) |-> StripClock(s[k])]

\* both calls are weekly schedules of the same field and forecast
SameWeeklyInputs ==
    /\ op[1] = "weekly" /\ op[2] = "weekly"
    /\ field_data[1] = field_data[2]
    /\ weather_forecast[1] = weather_forecast[2]

(***************************************************************************)
(* C1: in generate_weekly_schedule the moisture carried out of every       *)
(* simulated day lies within [0.10, 0.40], whatever the initial moisture,  *)
(* the soil and the forecast.                                              *)
(***************************************************************************)
C1_CarriedMoistureInRange ==
    \A p \in Procs :
        (op[p] = "weekly" /\ day_idx[p] >= 1)
            => (100 <= current_moisture[p] /\ current_moisture[p] <= 400)

\* a day was simulated from a negative initial moisture and the clamp
\* brought the carried moisture up to 0.10
C1_Witness ==
    \E p \in Procs :
        /\ op[p] = "weekly" /\ day_idx[p] = 1
        /\ field_data[p].current_soil_moisture < 0
        /\ current_moisture[p] = 100

C3_RainDefers ==
    [][\A p \in Procs : PlanStep(p) =>
          /\ StepRain(p) > 10 =>
                (StepPlan(p).recommendation = "DEFER_FOR_RAIN"
                   /\ StepPlan(p).should_irrigate = FALSE)
          /\ StepRain(p) = 10 => StepPlan(p).recommendation # "DEFER_FOR_RAIN"]_vars

\* a deferred plan for a field whose moisture is below 1.2 x wilting point
C3_Witness ==
    \E p \in Procs :
        /\ op[p] = "recommend" /\ pc[p] = "returned"
        /\ Rain3(field_data[p].weather.rainfall_forecast) > 10
        /\ 10 * field_data[p].current_soil_moisture
              < 12 * WiltingOf(field_data[p].soil_type)
        /\ result[p].recommendation = "DEFER_FOR_RAIN"
        /\ result[p].should_irrigate = FALSE

(***************************************************************************)
(* C4: with at most 10 mm of rain and moisture strictly below 1.2 x the    *)
(* wilting point of the resolved soil the plan is IRRIGATE_NOW, with       *)
(* should_irrigate true and immediate timing, at every hour.               *)
(***************************************************************************)
C4_CriticalIrrigatesNow ==
    [][\A p \in Procs : PlanStep(p) =>
          ((StepRain(p) <= 10 /\ 10 * StepMoisture(p) < 12 * WiltingOf(StepSoil(p)))
              => /\ StepPlan(p).recommendation = "IRRIGATE_NOW"
                 /\ StepPlan(p).should_irrigate = TRUE
                 /\ StepPlan(p).schedule.optimal_time = "now")]_vars

\* sandy soil at moisture 0.047, just below 0.048, irrigated at once
C4_Witness ==
    \E p \in Procs :
        /\ op[p] = "recommend" /\ pc[p] = "returned"
        /\ field_data[p].soil_type = "sandy"
        /\ field_data[p].current_soil_moisture = 47
        /\ result[p].recommendation = "IRRIGATE_NOW"
        /\ result[p].schedule.optimal_time = "now"

(***************************************************************************)
(* C5: with at most 10 mm of rain and 1.2 x wilting point <= moisture <    *)
(* 0.8 x field capacity the plan is IRRIGATE_SCHEDULED with                *)
(* should_irrigate true; its timing is "now" when the hour h read has      *)
(* 5 <= h < 8 or 17 <= h < 20 and "tomorrow at 06:00" at every other hour. *)
(***************************************************************************)
C5_ScheduledTiming ==
    [][\A p \in Procs : PlanStep(p) =>
          ((/\ StepRain(p) <= 10
            /\ 10 * StepMoisture(p) >= 12 * WiltingOf(StepSoil(p))
            /\ 10 * StepMoisture(p) < 8 * CapacityOf(StepSoil(p)))
              => /\ StepPlan(p).recommendation = "IRRIGATE_SCHEDULED"
                 /\ StepPlan(p).should_irrigate = TRUE
                 /\ \E h \in StepHours :
                       IF InWindow(h)
                       THEN StepPlan(p).schedule.optimal_time
                               \in {"now_morning", "now_evening"}
                       ELSE StepPlan(p).schedule.optimal_time = "tomorrow_6am")]_vars

\* a scheduled irrigation computed at 8 o'clock and put off to tomorrow
C5_Witness ==
    \E p \in Procs :
        /\ op[p] = "recommend" /\ pc[p] = "returned"
        /\ HourOf(clock) = 8
        /\ result[p].recommendation = "IRRIGATE_SCHEDULED"
        /\ result[p].schedule.optimal_time = "tomorrow_6am"

(***************************************************************************)
(* C6: with at most 10 mm of rain and moisture at or above 0.8 x field     *)
(* capacity the plan is NO_IRRIGATION_NEEDED with should_irrigate false;   *)
(* moisture equal to the target does not irrigate.                         *)
(***************************************************************************)
C6_AtTargetNoIrrigation ==
    [][\A p \in Procs : PlanStep(p) =>
          ((StepRain(p) <= 10 /\ 10 * StepMoisture(p) >= 8 * CapacityOf(StepSoil(p)))
              => /\ StepPlan(p).recommendation = "NO_IRRIGATION_NEEDED"
                 /\ StepPlan(p).should_irrigate = FALSE)]_vars

\* clay soil at exactly its target moisture 0.28, not irrigated
C6_Witness ==
    \E p \in Procs :
        /\ op[p] = "recommend" /\ pc[p] = "returned"
        /\ field_data[p].soil_type = "clay"
        /\ field_data[p].current_soil_moisture = 280
        /\ Rain3(field_data[p].weather.rainfall_forecast) <= 10
        /\ result[p].recommendation = "NO_IRRIGATION_NEEDED"

(***************************************************************************)
(* C7: a malformed rainfall forecast (one or two entries, or a negative    *)
(* entry) is rejected: no plan is produced from it.                        *)
(***************************************************************************)
C7_MalformedForecastRejected ==
    \A p \in Procs :
        /\ (op[p] = "recommend" /\ pc[p] = "returned")
              => ~Malformed(field_data[p].weather.rainfall_forecast)
        /\ op[p] = "weekly" =>
              \A k \in 1..Len(schedule[p]) :
                  ~Malformed(weather_forecast[p][k].rainfall_forecast)

(***************************************************************************)
(* C8: generate_weekly_schedule with an initial moisture outside [0, 1]    *)
(* fails before any day's plan is computed and returns no schedule.        *)
(***************************************************************************)
C8_OutOfRangeMoistureRejected ==
    \A p \in Procs :
        (/\ op[p] = "weekly"
         /\ (field_data[p].current_soil_moisture < 0
               \/ field_data[p].current_soil_moisture > 1000))
            => (schedule[p] = <<>> /\ pc[p] # "returned")

(***************************************************************************)
(* C9: generate_weekly_schedule never leaves its loop early: it ends by    *)
(* returning, after as many iterations as the forecast has entries, a      *)
(* schedule with one plan per entry, plan i computed from entry i.         *)
(***************************************************************************)
C9_ExactlyOnePlanPerDay ==
    \A p \in Procs :
        op[p] = "weekly" =>
            /\ pc[p] # "raised"
            /\ pc[p] = "returned" =>
                  /\ Len(result[p]) = Len(weather_forecast[p])
                  /\ \A i \in 1..Len(result[p]) :
                        /\ result[p][i].weather_impact.temperature
                              = weather_forecast[p][i].temperature
                        /\ result[p][i].weather_impact.expected_rainfall_mm
                              = Rain3(weather_forecast[p][i].rainfall_forecast)

(***************************************************************************)
(* C10: the plan of a day reports the moisture m carried into that day,    *)
(* and the moisture carried into the next day is m, plus 0.05 if the plan  *)
(* has should_irrigate, minus 0.02, clamped to [0.10, 0.40].               *)
(***************************************************************************)
C10_UpdateRule ==
    [][\A p \in Procs :
          (op[p] = "weekly" /\ pc[p] = "loop" /\ day_idx'[p] = day_idx[p] + 1)
              => /\ StepPlan(p).soil_status.current_moisture = current_moisture[p]
                 /\ current_moisture'[p] =
                       Clamped(current_moisture[p]
                                 + (IF StepPlan(p).should_irrigate THEN 50 ELSE 0)
                                 - 20)]_vars

\* the second plan of a schedule is computed at the moisture of the first
\* plus 0.03 after an irrigation, and at that moisture minus 0.02 otherwise
C10_Witness ==
    \E p \in Procs :
        /\ op[p] = "weekly" /\ Len(schedule[p]) = 2
        /\ schedule[p][1].should_irrigate = TRUE
        /\ schedule[p][1].soil_status.current_moisture = 199
        /\ schedule[p][2].soil_status.current_moisture = 229
        /\ schedule[p][2].should_irrigate = FALSE
        /\ current_moisture[p] = 209

(***************************************************************************)
(* Vocabulary of the properties about two calls and about direct calls.    *)
(***************************************************************************)
\* calls p and q are recommendations that have both returned
BothRecommended(p, q) ==
    /\ op[p] = "recommend" /\ op[q] = "recommend"
    /\ pc[p] = "returned" /\ pc[q] = "returned"

\* the field dictionaries of p and q agree outside current_soil_moisture
AgreeButMoisture(p, q) ==
    [field_data[p] EXCEPT !.current_soil_moisture = 0]
        = [field_data[q] EXCEPT !.current_soil_moisture = 0]

\* ... outside soil_type
AgreeButSoil(p, q) ==
    [field_data[p] EXCEPT !.soil_type = ""] = [field_data[q] EXCEPT !.soil_type = ""]

\* ... outside the rainfall forecast
AgreeButRainfall(p, q) ==
    [field_data[p] EXCEPT !.weather.rainfall_forecast = <<>>]
        = [field_data[q] EXCEPT !.weather.rainfall_forecast = <<>>]

\* the entries of a forecast at index 0, 1 and 2
Prefix3(rf) == SubSeq(rf, 1, IF Len(rf) < 3 THEN Len(rf) ELSE 3)

\* max(0, 0.8 * field capacity - m) in thousandths, for moisture m
DeficitOf(soil, m) ==
    IF 8 * CapacityOf(soil) > 10 * m THEN (8 * CapacityOf(soil) - 10 * m) \div 10 ELSE 0

KnownCrops == {"tomato", "potato", "corn", "wheat", "rice"}

KnownSoils == {"sandy", "loamy", "clay", "silt"}

Distance(a, b) == IF a >= b THEN a - b ELSE b - a

\* the name of the weekday of a date (day 0 is a Monday)
WeekdayNameOf(date) ==
    CASE date % 7 = 0 -> "Monday" [] date % 7 = 1 -> "Tuesday"
      [] date % 7 = 2 -> "Wednesday" [] date % 7 = 3 -> "Thursday"
      [] date % 7 = 4 -> "Friday" [] date % 7 = 5 -> "Saturday"
      [] OTHER -> "Sunday"

(***************************************************************************)
(* C11: for a fixed crop, stage, soil, area > 0, weather and forecast the  *)
(* total_need of a plan does not increase with the current moisture, and   *)
(* it is the same for all moistures at or above the target.                *)
(***************************************************************************)
C11_TotalNeedMonotone ==
    \A p \in Procs : \A q \in Procs :
        (/\ BothRecommended(p, q) /\ AgreeButMoisture(p, q)
         /\ field_data[p].area > 0
         /\ field_data[p].current_soil_moisture <= field_data[q].current_soil_moisture)
            => /\ result[q].water_requirements.total_need
                     <= result[p].water_requirements.total_need
               /\ 10 * field_data[p].current_soil_moisture
                     >= 8 * CapacityOf(field_data[p].soil_type)
                  => result[q].water_requirements.total_need
                        = result[p].water_requirements.total_need

\* two plans for the same loamy field: a positive need at the target moisture,
\* the same need above it, and a larger need below it is reached in C11_Witness
C11_Witness ==
    /\ BothRecommended(1, 2) /\ AgreeButMoisture(1, 2)
    /\ field_data[1].soil_type = "loamy"
    /\ field_data[1].current_soil_moisture = 200
    /\ field_data[2].current_soil_moisture = 210
    /\ result[1].water_requirements.total_need > 0
    /\ result[2].water_requirements.total_need
          = result[1].water_requirements.total_need

(***************************************************************************)
(* C12: total_need = max(0, daily need + deficit water - rainfall water),  *)
(* with deficit water = max(0, 0.8 * fc - moisture) * area * 10000 * 0.3   *)
(* and rainfall water = (sum of the first three forecast entries) * area   *)
(* * 10; it is never negative, and the forecast entries from index 3 on    *)
(* do not affect the plan.                                                 *)
(***************************************************************************)
C12_TotalNeedFormula ==
    /\ \A p \in Procs :
          (op[p] = "recommend" /\ pc[p] = "returned") =>
              LET fd == field_data[p]
                  w  == result[p].water_requirements
                  D  == DeficitOf(fd.soil_type, fd.current_soil_moisture)
                           * fd.area * 3000
                  R  == Rain3(fd.weather.rainfall_forecast) * fd.area * 10000
              IN  /\ w.deficit = D
                  /\ w.rainfall_contribution = R
                  /\ w.total_need =
                        (IF w.daily_need + D - R > 0 THEN w.daily_need + D - R ELSE 0)
                  /\ w.total_need >= 0
    /\ \A p \in Procs : \A q \in Procs :
          (/\ BothRecommended(p, q) /\ AgreeButRainfall(p, q)
           /\ Prefix3(field_data[p].weather.rainfall_forecast)
                 = Prefix3(field_data[q].weather.rainfall_forecast))
              => result[p] = result[q]

\* the same field with forecasts [2, 1, 0] and [2, 1, 0, 50]: the same plan,
\* with 3 mm of rain taken off a positive total need
C12_Witness ==
    /\ BothRecommended(1, 2) /\ AgreeButRainfall(1, 2)
    /\ field_data[1].weather.rainfall_forecast = <<2, 1, 0>>
    /\ field_data[2].weather.rainfall_forecast = <<2, 1, 0, 50>>
    /\ result[1] = result[2]
    /\ result[2].weather_impact.expected_rainfall_mm = 3
    /\ result[2].water_requirements.total_need > 0

(***************************************************************************)
(* C13: the method is drip at efficiency 0.90 on sandy soil, surface at    *)
(* 0.60 on clay and sprinkler at 0.75 on every other soil, whatever the    *)
(* moisture, the weather and the decision.                                 *)
(***************************************************************************)
C13_MethodBySoil ==
    [][\A p \in Procs : PlanStep(p) =>
          LET sch == StepPlan(p).schedule
          IN  CASE StepSoil(p) = "sandy" ->
                      sch.method = "drip" /\ sch.efficiency = 90
                [] StepSoil(p) = "clay" ->
                      sch.method = "surface" /\ sch.efficiency = 60
                [] OTHER ->
                      sch.method = "sprinkler" /\ sch.efficiency = 75]_vars

\* a plan for clay soil deferred for rain, by surface irrigation at 0.60
C13_Witness ==
    \E p \in Procs :
        /\ op[p] = "recommend" /\ pc[p] = "returned"
        /\ field_data[p].soil_type = "clay"
        /\ result[p].recommendation = "DEFER_FOR_RAIN"
        /\ result[p].schedule.method = "surface"
        /\ result[p].schedule.efficiency = 60

(***************************************************************************)
(* C14: the applied water is total_need / efficiency when should_irrigate  *)
(* and 0 otherwise; the duration is the applied water divided by the flow  *)
(* rate, which is the caller's rate when the field data carry one and      *)
(* 50 m3/h otherwise.  Stated on the rounded figures of the plan, within   *)
(* the rounding of two decimals.                                           *)
(***************************************************************************)
C14_AppliedWaterAndDuration ==
    [][\A p \in Procs : PlanStep(p) =>
          LET plan == StepPlan(p)
              w    == plan.water_requirements
              rate == IF "flow_rate" \in DOMAIN field_data[p]
                      THEN field_data[p].flow_rate ELSE 50
          IN  IF plan.should_irrigate
              THEN /\ Distance(w.adjusted_for_efficiency * plan.schedule.efficiency,
                               w.total_need * 100) <= 2000
                   /\ Distance(plan.schedule.duration_hours * rate,
                               w.adjusted_for_efficiency) <= 10 * rate
              ELSE /\ w.adjusted_for_efficiency = 0
                   /\ plan.schedule.duration_hours = 0]_vars

(***************************************************************************)
(* C15: calculate_crop_water_need does not fail on a crop that is not in   *)
(* the coefficient table and returns et0 * 1.0 * area * 10 for it; for     *)
(* tomato at stage mid it uses Kc = 1.15, so et0 = 5 and area = 2 give     *)
(* 115 m3.                                                                 *)
(***************************************************************************)
C15_UnknownCropNeutralKc ==
    \A p \in Procs :
        op[p] = "crop_need" =>
            /\ pc[p] # "raised"
            /\ pc[p] = "returned" =>
                  LET a == field_data[p]
                  IN  /\ a.crop_type = "quinoa" => result[p] = a.et0 * 100 * a.area
                      /\ (a.crop_type = "tomato" /\ a.growth_stage = "mid")
                            => result[p] = a.et0 * 115 * a.area
                      /\ (a.crop_type = "tomato" /\ a.growth_stage = "mid"
                            /\ a.et0 = 5000 /\ a.area = 2) => result[p] = 1150000

\* the need of an unknown crop at et0 = 5 on 2 ha: 100 m3
C15_Witness ==
    \E p \in Procs :
        /\ op[p] = "crop_need" /\ pc[p] = "returned"
        /\ field_data[p].crop_type \notin KnownCrops
        /\ field_data[p].crop_type = "quinoa"
        /\ field_data[p].et0 = 5000 /\ field_data[p].area = 2
        /\ result[p] = 1000000

(***************************************************************************)
(* C16: with a soil that is not in the soil table the plan is the plan of  *)
(* the same field on loamy soil (field capacity 0.25, wilting point 0.10), *)
(* thresholds, decision and method included, and the call does not fail.   *)
(***************************************************************************)
C16_UnknownSoilAsLoamy ==
    /\ \A p \in Procs :
          (op[p] = "recommend" /\ field_data[p].soil_type \notin KnownSoils
             /\ field_data[p].weather.temperature = 300) => pc[p] # "raised"
    /\ \A p \in Procs : \A q \in Procs :
          (/\ BothRecommended(p, q) /\ AgreeButSoil(p, q)
           /\ field_data[p].soil_type \notin KnownSoils
           /\ field_data[q].soil_type = "loamy")
              => /\ result[p] = result[q]
                 /\ result[p].soil_status.field_capacity = 250
                 /\ result[p].soil_status.wilting_point = 100

\* a peat field and the same field on loamy soil, both irrigated on schedule
\* at moisture 0.199, with the same plan
C16_Witness ==
    /\ BothRecommended(1, 2) /\ AgreeButSoil(1, 2)
    /\ field_data[1].soil_type = "peat" /\ field_data[2].soil_type = "loamy"
    /\ field_data[1].current_soil_moisture = 199
    /\ result[1].recommendation = "IRRIGATE_SCHEDULED"
    /\ result[1] = result[2]

(***************************************************************************)
(* C17: calculate_et0 never raises: it returns a value for every           *)
(* temperature (below -20 C, -15 C and -237.3 C included), humidity and    *)
(* wind speed, with or without solar radiation.                            *)
(***************************************************************************)
C17_Et0NeverRaises ==
    \A p \in Procs : op[p] = "et0" => pc[p] # "raised"

(***************************************************************************)
(* C18: whenever calculate_et0 returns, its result is at least 0, also     *)
(* with humidity above 100, negative wind speed or negative radiation.     *)
(***************************************************************************)
C18_Et0NonNegative ==
    \A p \in Procs : (op[p] = "et0" /\ pc[p] = "returned") => result[p] >= 0

\* 30 C at 150 % humidity and wind 3 m/s: the negative estimate is returned as 0
C18_Witness ==
    \E p \in Procs :
        /\ op[p] = "et0" /\ pc[p] = "returned"
        /\ field_data[p].temperature = 300 /\ field_data[p].humidity = 150
        /\ field_data[p].wind_speed = 3 /\ field_data[p].solar_radiation = NoValue
        /\ result[p] = 0

(***************************************************************************)
(* C19: for a fixed crop, stage and et0 the crop water need is             *)
(* proportional to the area: twice the area gives twice the need.          *)
(***************************************************************************)
C19_NeedLinearInArea ==
    \A p \in Procs : \A q \in Procs :
        (/\ op[p] = "crop_need" /\ op[q] = "crop_need"
         /\ pc[p] = "returned" /\ pc[q] = "returned"
         /\ [field_data[p] EXCEPT !.area = 0] = [field_data[q] EXCEPT !.area = 0])
            => /\ result[q] * field_data[p].area = result[p] * field_data[q].area
               /\ field_data[q].area = 2 * field_data[p].area
                     => result[q] = 2 * result[p]

\* tomato at stage mid and et0 = 5: 115 m3 on 2 ha and 230 m3 on 4 ha
C19_Witness ==
    /\ op[1] = "crop_need" /\ op[2] = "crop_need"
    /\ pc[1] = "returned" /\ pc[2] = "returned"
    /\ [field_data[1] EXCEPT !.area = 0] = [field_data[2] EXCEPT !.area = 0]
    /\ field_data[1].area = 2 /\ field_data[2].area = 4
    /\ result[1] = 1150000 /\ result[2] = 2300000

(***************************************************************************)
(* C20: every plan of the weekly schedule carries the name of the weekday  *)
(* of its date, and consecutive plans carry consecutive dates.             *)
(***************************************************************************)
C20_DateAndWeekdayName ==
    \A p \in Procs :
        op[p] = "weekly" =>
            \A i \in 1..Len(schedule[p]) :
                /\ schedule[p][i].day_name = WeekdayNameOf(schedule[p][i].date)
                /\ i > 1 => schedule[p][i].date = schedule[p][i - 1].date + 1

(***************************************************************************)
(* Vocabulary of the properties about the days of a weekly schedule.       *)
(***************************************************************************)
\* call p is a weekly schedule that has computed some plans
IsWeekly(p) == op[p] = "weekly" /\ pc[p] \in {"loop", "returned", "raised"}

\* the moisture reported in the plan of a day, in thousandths
UsedMoisture(plan) == plan.soil_status.current_moisture

AtOrAboveTarget(soil, m) == 10 * m >= 8 * CapacityOf(soil)

\* a forecast of seven days none of which announces rain
DryWeek(p) ==
    /\ Len(weather_forecast[p]) = 7
    /\ \A i \in 1..7 : Rain3(weather_forecast[p][i].rainfall_forecast) = 0

\* a forecast of seven days each of which announces more than 10 mm
RainyWeek(p) ==
    /\ Len(weather_forecast[p]) = 7
    /\ \A i \in 1..7 : Rain3(weather_forecast[p][i].rainfall_forecast) > 10

\* the schedule computed for a field alone, from moisture m on, without the
\* fields read from the wall clock
RECURSIVE ScheduleAlone(_, _, _)
ScheduleAlone(fd, wf, m) ==
    IF wf = <<>> THEN <<>>
    ELSE LET plan == calculate_optimal_irrigation(
                         [fd EXCEPT !.current_soil_moisture = m,
                                    !.weather = Head(wf)], 12)
             next == Clamped((IF plan.should_irrigate THEN m + 50 ELSE m) - 20)
         IN  <<StripClock(plan)>> \o ScheduleAlone(fd, Tail(wf), next)

\* the variables of invocation p
FrameOf(p) == <<pc[p], day_idx[p], schedule[p], current_moisture[p], result[p]>>

(***************************************************************************)
(* C21: the decision functions do not mutate their input: no step changes  *)
(* the caller's field_data or an entry of the forecast; between days only  *)
(* the carried moisture changes, and a plan appended to the schedule is    *)
(* not modified by later days.                                             *)
(***************************************************************************)
C21_InputsNotMutated ==
    [][\A p \in Procs :
          /\ field_data'[p] = field_data[p]
          /\ weather_forecast'[p] = weather_forecast[p]
          /\ (op[p] = "weekly" /\ pc[p] = "loop") =>
                /\ Len(schedule'[p]) >= Len(schedule[p])
                /\ SubSeq(schedule'[p], 1, Len(schedule[p])) = schedule[p]]_vars

\* a returned schedule of two days whose carried moisture has moved away from
\* the caller's current_soil_moisture, which the plan of day 0 reports
C21_Witness ==
    \E p \in Procs :
        /\ op[p] = "weekly" /\ pc[p] = "returned"
        /\ Len(result[p]) = 2
        /\ field_data[p].current_soil_moisture = 199
        /\ field_data[p].weather = DefaultWeather
        /\ current_moisture[p] # field_data[p].current_soil_moisture
        /\ UsedMoisture(result[p][1]) = 199
        /\ UsedMoisture(result[p][2]) = 229

C23_NoSharedState ==
    [][\A p \in Procs :
          /\ (op[p] = "weekly" /\ pc'[p] \in {"loop", "returned"}) =>
                StripAll(schedule'[p])
                   = SubSeq(ScheduleAlone(field_data[p], weather_forecast[p],
                                          field_data[p].current_soil_moisture),
                            1, Len(schedule'[p]))
          /\ \A q \in Procs \ {p} :
                FrameOf(p)' # FrameOf(p) => FrameOf(q)' = FrameOf(q)]_vars

\* two schedules of two days for fields at 0.15 and 0.21, both returned and
\* different from each other
C23_Witness ==
    /\ op[1] = "weekly" /\ op[2] = "weekly"
    /\ pc[1] = "returned" /\ pc[2] = "returned"
    /\ field_data[1].current_soil_moisture = 150
    /\ field_data[2].current_soil_moisture = 210
    /\ Len(result[1]) = 2 /\ Len(result[2]) = 2
    /\ result[1][1].should_irrigate /\ ~result[2][1].should_irrigate
    /\ UsedMoisture(result[1][2]) = 180 /\ UsedMoisture(result[2][2]) = 190

(***************************************************************************)
(* C24: every plan carries exactly one of the four recommendations, and    *)
(* should_irrigate is true if and only if the 3-day rainfall is at most    *)
(* 10 mm and the moisture is below 0.8 x field capacity; 1.2 x wilting     *)
(* point < 0.8 x field capacity in every soil profile, so a critical plan  *)
(* is a plan below target.                                                 *)
(***************************************************************************)
C24_FourWayDecision ==
    [][\A p \in Procs : PlanStep(p) =>
          LET plan == StepPlan(p)
          IN  /\ plan.recommendation \in
                    {"DEFER_FOR_RAIN", "IRRIGATE_NOW", "IRRIGATE_SCHEDULED",
                     "NO_IRRIGATION_NEEDED"}
              /\ plan.should_irrigate
                    <=> (StepRain(p) <= 10
                           /\ ~AtOrAboveTarget(StepSoil(p), StepMoisture(p)))
              /\ plan.recommendation = "IRRIGATE_NOW"
                    => ~AtOrAboveTarget(StepSoil(p), StepMoisture(p))
              /\ \A s \in DOMAIN SOIL_PROPERTIES :
                    12 * SOIL_PROPERTIES[s].wilting_point
                       < 8 * SOIL_PROPERTIES[s].field_capacity]_vars

\* clay just below its critical threshold 0.24, which is below its target 0.28
C24_Witness ==
    \E p \in Procs :
        /\ op[p] = "recommend" /\ pc[p] = "returned"
        /\ field_data[p].soil_type = "clay"
        /\ field_data[p].current_soil_moisture = 239
        /\ Rain3(field_data[p].weather.rainfall_forecast) = 10
        /\ result[p].recommendation = "IRRIGATE_NOW"
        /\ result[p].should_irrigate

(***************************************************************************)
(* C25: on sandy soil no plan of the weekly schedule from day 1 on has     *)
(* should_irrigate = true, whatever the initial moisture and the forecast. *)
(***************************************************************************)
C25_SandyIrrigatesOnDay0Only ==
    \A p \in Procs :
        (IsWeekly(p) /\ field_data[p].soil_type = "sandy")
            => \A i \in 2..Len(schedule[p]) : ~schedule[p][i].should_irrigate

\* sandy soil from 0.03 over a dry week: irrigation on day 0, then six days
\* without, at moisture 0.10
C25_Witness ==
    \E p \in Procs :
        /\ op[p] = "weekly" /\ pc[p] = "returned" /\ DryWeek(p)
        /\ field_data[p].soil_type = "sandy"
        /\ field_data[p].current_soil_moisture = 30
        /\ Len(result[p]) = 7
        /\ result[p][1].should_irrigate
        /\ \A i \in 2..7 : /\ ~result[p][i].should_irrigate
                           /\ UsedMoisture(result[p][i]) = 100

(***************************************************************************)
(* C26: in a weekly schedule without a rain deferral, on loamy, silt or    *)
(* clay soil, once the moisture used for a day is at or above the target,  *)
(* the moisture used for every later day is at least target - 0.02 and no  *)
(* later plan is IRRIGATE_NOW.                                             *)
(***************************************************************************)
C26_StaysNearTarget ==
    \A p \in Procs :
        (/\ IsWeekly(p) /\ field_data[p].soil_type \in {"loamy", "silt", "clay"}
         /\ \A k \in 1..Len(schedule[p]) :
               schedule[p][k].recommendation # "DEFER_FOR_RAIN")
            => \A i \in 1..Len(schedule[p]) : \A j \in (i + 1)..Len(schedule[p]) :
                  AtOrAboveTarget(field_data[p].soil_type,
                                  UsedMoisture(schedule[p][i]))
                     => /\ 10 * (UsedMoisture(schedule[p][j]) + 20)
                              >= 8 * CapacityOf(field_data[p].soil_type)
                        /\ schedule[p][j].recommendation # "IRRIGATE_NOW"

\* clay from its target 0.28 over a dry week: 0.26 on day 1, irrigated on
\* schedule, 0.29 on day 2
C26_Witness ==
    \E p \in Procs :
        /\ op[p] = "weekly" /\ pc[p] = "returned" /\ DryWeek(p)
        /\ field_data[p].soil_type = "clay"
        /\ Len(result[p]) = 7
        /\ UsedMoisture(result[p][1]) = 280
        /\ result[p][1].recommendation = "NO_IRRIGATION_NEEDED"
        /\ UsedMoisture(result[p][2]) = 260
        /\ result[p][2].recommendation = "IRRIGATE_SCHEDULED"
        /\ UsedMoisture(result[p][3]) = 290

(***************************************************************************)
(* C27: in a weekly schedule where every day announces more than 10 mm     *)
(* over its first three entries, no day recommends irrigation and from     *)
(* day 1 on the moisture decreases by 0.02 per day down to 0.10, where it  *)
(* stays, also when it is below the critical threshold.                    *)
(***************************************************************************)
C27_RainNeverRaisesMoisture ==
    \A p \in Procs :
        (/\ IsWeekly(p)
         /\ \A k \in 1..Len(weather_forecast[p]) :
               Rain3(weather_forecast[p][k].rainfall_forecast) > 10)
            => /\ \A i \in 1..Len(schedule[p]) : ~schedule[p][i].should_irrigate
               /\ \A i \in 2..(Len(schedule[p]) - 1) :
                     /\ UsedMoisture(schedule[p][i + 1])
                           <= UsedMoisture(schedule[p][i])
                     /\ UsedMoisture(schedule[p][i + 1])
                           = (IF UsedMoisture(schedule[p][i]) - 20 < 100 THEN 100
                              ELSE UsedMoisture(schedule[p][i]) - 20)

\* silt from 0.24 over a rainy week: 0.22, 0.20, ... 0.12 with no irrigation,
\* the last days below the critical threshold 0.144
C27_Witness ==
    \E p \in Procs :
        /\ op[p] = "weekly" /\ pc[p] = "returned" /\ RainyWeek(p)
        /\ field_data[p].soil_type = "silt"
        /\ Len(result[p]) = 7
        /\ UsedMoisture(result[p][1]) = 240
        /\ UsedMoisture(result[p][2]) = 220
        /\ UsedMoisture(result[p][7]) = 120
        /\ \A i \in 1..7 : result[p][i].recommendation = "DEFER_FOR_RAIN"

(***************************************************************************)
(* C28: the plan of day 0 reports the caller's current_soil_moisture       *)
(* unchanged, which may lie outside [10 %, 40 %]; the moisture reported    *)
(* in every plan from day 1 on lies within [10 %, 40 %].                   *)
(***************************************************************************)
C28_ClampAfterPlan ==
    \A p \in Procs :
        IsWeekly(p) =>
            \A i \in 1..Len(schedule[p]) :
                IF i = 1
                THEN UsedMoisture(schedule[p][i])
                        = field_data[p].current_soil_moisture
                ELSE /\ 100 <= UsedMoisture(schedule[p][i])
                     /\ UsedMoisture(schedule[p][i]) <= 400

\* a schedule from moisture 1.001: reported as such on day 0, 0.40 on day 1
C28_Witness ==
    \E p \in Procs :
        /\ op[p] = "weekly" /\ pc[p] = "returned"
        /\ field_data[p].current_soil_moisture = 1001
        /\ Len(result[p]) = 7
        /\ UsedMoisture(result[p][1]) = 1001
        /\ UsedMoisture(result[p][2]) = 400

(***************************************************************************)
(* C29: in every plan should_irrigate = true implies a timing and the      *)
(* soil status 'needs irrigation'; should_irrigate = false implies no      *)
(* timing, applied water 0 and duration 0; the status is 'adequate'        *)
(* exactly when the moisture is at or above the target, so a deferred      *)
(* plan can carry 'needs irrigation'.                                      *)
(***************************************************************************)
C29_PlanConsistent ==
    [][\A p \in Procs : PlanStep(p) =>
          LET plan == StepPlan(p)
          IN  /\ plan.should_irrigate
                    => /\ plan.schedule.optimal_time # None
                       /\ plan.soil_status.status = "needs_irrigation"
              /\ ~plan.should_irrigate
                    => /\ plan.schedule.optimal_time = None
                       /\ plan.water_requirements.adjusted_for_efficiency = 0
                       /\ plan.schedule.duration_hours = 0
              /\ plan.soil_status.status = "adequate"
                    <=> AtOrAboveTarget(StepSoil(p), StepMoisture(p))
              /\ plan.soil_status.status \in {"adequate", "needs_irrigation"}]_vars

\* a plan deferred for rain at a moisture below target: no irrigation, no
\* timing, status 'needs irrigation', and a positive total need
C29_Witness ==
    \E p \in Procs :
        /\ op[p] = "recommend" /\ pc[p] = "returned"
        /\ result[p].recommendation = "DEFER_FOR_RAIN"
        /\ ~result[p].should_irrigate
        /\ result[p].schedule.optimal_time = None
        /\ result[p].soil_status.status = "needs_irrigation"
        /\ result[p].water_requirements.total_need > 0
        /\ result[p].water_requirements.adjusted_for_efficiency = 0

(***************************************************************************)
(* C30: two weather observations that differ only in solar_radiation give  *)
(* identical plans: the single-day computation never passes a solar        *)
(* radiation to calculate_et0, which estimates it from the temperature.    *)
(***************************************************************************)
C30_SolarRadiationIgnored ==
    \A p \in Procs : \A q \in Procs :
        (/\ BothRecommended(p, q)
         /\ [field_data[p] EXCEPT !.weather.solar_radiation = NoValue]
               = [field_data[q] EXCEPT !.weather.solar_radiation = NoValue])
            => result[p] = result[q]

\* the same field observed without radiation and with 20 MJ/m2/day
C30_Witness ==
    /\ BothRecommended(1, 2)
    /\ field_data[1].weather.solar_radiation = NoValue
    /\ field_data[2].weather.solar_radiation = <<20000>>
    /\ field_data[1].current_soil_moisture = field_data[2].current_soil_moisture
    /\ result[1] = result[2]
    /\ result[2].weather_impact.et0 > 0

====
